---------------------------- MODULE Spec2Model ----------------------------
(***************************************************************************)
(* A model of the ramadan-timings library: the solar ephemeris, the        *)
(* hour-angle inversion, the high-latitude fallback, the daily aggregators *)
(* getDayFastingTimes / getDayPrayerTimes, the range getRamadanFastingTimes,*)
(* validateConfig and formatLocalTime.                                     *)
(*                                                                         *)
(* Number representation.  The program computes with IEEE doubles; the     *)
(* model computes with integers in fixed point:                            *)
(*   - a Date is its getTime() value, whole milliseconds since the Unix    *)
(*     epoch (the Date constructor truncates to whole milliseconds);       *)
(*   - angles in degrees, and minutes of time, are held in units of 1e-5   *)
(*     (21.4225 degrees is 2142250);                                       *)
(*   - dimensionless values (sines, eccentricity, radians) are held in     *)
(*     units of 1e-6;                                                      *)
(*   - Julian centuries t are held in units of 1e-9;                       *)
(*   - fajrTwilightAngle is held in units of 1e-2 degree.                  *)
(* TLC integers are 32 bit, so calendar days are taken around the Unix     *)
(* epoch (1970-01-01), where getTime() fits.                               *)
(***************************************************************************)
EXTENDS Integers, Sequences, FiniteSets, TLC

\* null / undefined, and a computed NaN: the absent value; a present value v
\* is <<v>>.  (NaN passed in a config field is the value NaN, below.)
NULL == << >>
Some(v) == << v >>

\* The element of a one-element set.  Only({ body : x \in {e} }) is body
\* with x naming the value of e, computed once (a const declaration).
Only(S) == CHOOSE x \in S : TRUE

Abs(x) == IF x < 0 THEN -x ELSE x
Sgn(x) == IF x < 0 THEN -1 ELSE 1

(***************************************************************************)
(* Fixed-point arithmetic                                                  *)
(***************************************************************************)

\* a * b for a, b in units of 1e-6, |a|, |b| <= 1e6 (rounded toward zero).
Mul6(a, b) ==
    Only({ LET p == (Abs(x) \div 1000) * Abs(y) + ((Abs(x) % 1000) * Abs(y)) \div 1000
           IN  Sgn(x) * Sgn(y) * (p \div 1000) : x \in {a}, y \in {b} })

\* a / b for a, b in units of 1e-6, |a| <= |b| <= 1e6, b # 0 (toward zero).
Div6(a, b) ==
    Only({ LET h == (Abs(x) * 1000) \div Abs(y)
               l == (((Abs(x) * 1000) % Abs(y)) * 1000) \div Abs(y)
           IN  Sgn(x) * Sgn(y) * (h * 1000 + l) : x \in {a}, y \in {b} })

\* sin(k degrees) * 1e6 for k = 0..90 (entry k+1).
SinTable ==
  << 0, 17452, 34899, 52336, 69756, 87156, 104528, 121869,
     139173, 156434, 173648, 190809, 207912, 224951, 241922, 258819,
     275637, 292372, 309017, 325568, 342020, 358368, 374607, 390731,
     406737, 422618, 438371, 453990, 469472, 484810, 500000, 515038,
     529919, 544639, 559193, 573576, 587785, 601815, 615661, 629320,
     642788, 656059, 669131, 681998, 694658, 707107, 719340, 731354,
     743145, 754710, 766044, 777146, 788011, 798636, 809017, 819152,
     829038, 838671, 848048, 857167, 866025, 874620, 882948, 891007,
     898794, 906308, 913545, 920505, 927184, 933580, 939693, 945519,
     951057, 956305, 961262, 965926, 970296, 974370, 978148, 981627,
     984808, 987688, 990268, 992546, 994522, 996195, 997564, 998630,
     999391, 999848, 1000000 >>

\* sine on the first quadrant, a in 0..9000000 (1e-5 degree): the table,
\* interpolated linearly inside each degree.
SinQ1(a) ==
    Only({ IF k >= 90 THEN 1000000
           ELSE SinTable[k + 1] + ((SinTable[k + 2] - SinTable[k + 1]) * f) \div 100000 :
           k \in {a \div 100000}, f \in {a % 100000} })

\* Math.sin(degToRad(x)), x in 1e-5 degree, result in 1e-6.
Sin(x) ==
    Only({ IF r <= 9000000 THEN SinQ1(r)
           ELSE IF r <= 18000000 THEN SinQ1(18000000 - r)
           ELSE IF r <= 27000000 THEN -SinQ1(r - 18000000)
           ELSE -SinQ1(36000000 - r) : r \in {x % 36000000} })

\* Math.cos(degToRad(x)).
Cos(x) == Sin(x + 9000000)

\* radToDeg(Math.asin(u)) on 0..1000000, result in 1e-5 degree: the inverse
\* of SinQ1.
AsinQ1(u) ==
    IF u >= 1000000 THEN 9000000
    ELSE Only({ k * 100000
                + ((u - SinTable[k + 1]) * 100000) \div (SinTable[k + 2] - SinTable[k + 1]) :
                k \in {CHOOSE i \in 0..89 : SinTable[i + 1] <= u /\ u < SinTable[i + 2]} })

\* radToDeg(Math.asin(v)), v in -1000000..1000000.
Asin(v) == Only({ IF x < 0 THEN -AsinQ1(-x) ELSE AsinQ1(x) : x \in {v} })

\* radToDeg(Math.acos(v)), in 0..18000000.
Acos(v) == 9000000 - Asin(v)

\* radToDeg(r) for r in 1e-6 radian, result in 1e-5 degree (x 5.729578).
radToDeg(r) == Only({ x * 5 + (x * 7296) \div 10000 : x \in {r} })

\* c * t for an integer coefficient c (|c| <= 36000) and t in 1e-9 century;
\* the result is in 1e-5 of c's unit.
WholeTimesT(c, t) ==
    Only({ x * (y \div 10000) + (x * (y % 10000)) \div 10000 : x \in {c}, y \in {t} })

\* c * t for a coefficient c (|c| <= 100000, any fixed-point unit) and t in
\* 1e-9 century; the result is in c's unit.
FracTimesT(c, t) ==
    Only({ (x * (y \div 100000)) \div 10000 + (x * ((y % 100000) \div 100)) \div 10000000 :
           x \in {c}, y \in {t} })

\* new Date(base + num/den): the time value is truncated toward zero to a
\* whole number of milliseconds (den > 0, base a whole number).
TimeClip(base, num, den) ==
    Only({ IF n % den = 0 THEN b + n \div den
           ELSE IF b + n \div den >= 0 THEN b + n \div den
           ELSE b + n \div den + 1 : b \in {base}, n \in {num} })

(***************************************************************************)
(* astronomy: Julian date and solar coordinates                            *)
(***************************************************************************)

MsPerDay == 86400000

\* dateToJulianDate: getTime() / 86400000 + 2440587.5, held as whole days
\* plus milliseconds of the day.
dateToJulianDate(ms) ==
    Only({ [day |-> 2440587 + x \div MsPerDay, ms |-> x % MsPerDay] :
           x \in {ms + 43200000} })

\* calcTimeJulianCent: (jd - 2451545.0) / 36525.0, in 1e-9 century
\* (1e9 / 36525 = 27378.50787 per day, 1 / 3155.76 per millisecond).
\* d * 0.50787 is taken of d = 100 * a + b in two parts.
calcTimeJulianCent(jd) ==
    Only({ LET d == j.day - 2451545
               a == d \div 100
               b == d % 100
           IN  d * 27378 + 50 * a + (78700 * a + 50787 * b) \div 100000
                 + ((j.ms \div 2) * 25) \div 39447 :
           j \in {jd} })

\* The two normalisation loops of getSolarCoordinates:
\* while (l0 > 360) l0 -= 360; while (l0 < 0) l0 += 360.
RECURSIVE NormalizeL0(_)
NormalizeL0(l0) ==
    Only({ IF x > 36000000 THEN NormalizeL0(x - 36000000)
           ELSE IF x < 0 THEN NormalizeL0(x + 36000000)
           ELSE x : x \in {l0} })

\* t = TurnsOf(t) * 1e7 + WithinTurn(t), both of the sign of t.  In 0.01
\* century (1e7) the terms 36000 * t and 35999 * t advance by one turn and
\* by one turn less 0.01 degree; the products are taken of WithinTurn(t),
\* which leaves out whole turns only and keeps them inside the integers.
TurnsOf(t) == Sgn(t) * (Abs(t) \div 10000000)

WithinTurn(t) == t - TurnsOf(t) * 10000000

\* Geometric mean longitude of the sun:
\* 280.46646 + t * (36000.76983 + t * 0.0003032), normalised.  The value
\* handed to the loops has the sign and the remainder modulo 360 of the
\* code's, so the loops end on the same value.
MeanLongitude(t) ==
    NormalizeL0(28046646 + WholeTimesT(36000, WithinTurn(t))
                         + FracTimesT(76983 + FracTimesT(30, t), t))

\* Geometric mean anomaly of the sun:
\* 357.52911 + t * (35999.05029 - 0.0001537 * t).  Its sines are taken of
\* the angle reduced modulo 360.
MeanAnomaly(t) ==
    (35752911 + WholeTimesT(35999, WithinTurn(t)) - 1000 * TurnsOf(t)
              + FracTimesT(5029 - FracTimesT(15, t), t))
        % 36000000

\* Eccentricity of the earth's orbit:
\* 0.016708634 - t * (0.000042037 + 0.0000001267 * t), in 1e-6.
Eccentricity(t) == 16709 - FracTimesT(42, t)

\* omega = 125.04 - 1934.136 * t
Omega(t) == 12504000 - WholeTimesT(1934, t) - FracTimesT(13600, t)

\* Sun equation of centre.
EquationOfCentre(t, m) ==
      Mul6(Sin(m), 191460 - FracTimesT(482 + FracTimesT(1, t), t))
    + Mul6(Sin(2 * m), 1999 - FracTimesT(10, t))
    + Mul6(Sin(3 * m), 29)

\* A fixed obliquity of 23.5 degrees.
ObliquityCorrection_Fixed(t) == 2350000

\* Mean obliquity of the ecliptic and its correction:
\* seconds = 21.448 - t * (46.8150 + t * (0.00059 - t * 0.001813));
\* e0 = 23.0 + (26.0 + seconds / 60.0) / 60.0;
\* oblCorr = e0 + 0.00256 * cos(omega).
ObliquityCorrection(t) ==
    LET seconds == 2144800 - WholeTimesT(46, t)
                   - FracTimesT(81500 + FracTimesT(59 - FracTimesT(181, t), t), t)
        e0 == 2300000 + (2600000 + seconds \div 60) \div 60
    IN  e0 + Mul6(256, Cos(Omega(t)))

\* y = tan(oblCorr / 2) ** 2
TanHalfSquared(oblCorr) ==
    Only({ Mul6(tanHalf, tanHalf) :
           tanHalf \in {Div6(Sin(oblCorr \div 2), Cos(oblCorr \div 2))} })

\* The equation of time in radians (1e-6), with y = tan(oblCorr / 2) ** 2.
EqTimeRad(oblCorr, l0, e, m) ==
    Only({   Mul6(y, Sin(2 * l0))
           - 2 * Mul6(e, Sin(m))
           + 4 * Mul6(Mul6(e, y), Mul6(Sin(m), Cos(2 * l0)))
           - Mul6(Mul6(y, y), Sin(4 * l0)) \div 2
           - (5 * Mul6(Mul6(e, e), Sin(2 * m))) \div 4 :
           y \in {TanHalfSquared(oblCorr)} })

\* getSolarCoordinates: declination (1e-5 degree) and equation of time
\* (1e-5 minute) for a Julian date; l0 is the normalised mean longitude.
getSolarCoordinates(jd) ==
    Only({ Only({ LET lambda == l0 + EquationOfCentre(t, m) - 569
                                - Mul6(478, Sin(Omega(t)))
                  IN  [declination |-> Asin(Mul6(Sin(oblCorr), Sin(lambda))),
                       equationOfTime |->
                           radToDeg(EqTimeRad(oblCorr, l0, e, m)) * 4,
                       l0 |-> l0] :
                  l0 \in {MeanLongitude(t)}, m \in {MeanAnomaly(t)},
                  e \in {Eccentricity(t)}, oblCorr \in {ObliquityCorrection(t)} }) :
           t \in {calcTimeJulianCent(jd)} })

(***************************************************************************)
(* astronomy: hour angle and the time-for-angle resolver                   *)
(***************************************************************************)

\* cosHA = 1 and cosHA = -1 signalled as NaN too.
getHourAngle_OpenInterval(altitudeDeg, declinationDeg, latitudeDeg) ==
    Only({ IF denom = 0 THEN NULL
           ELSE IF numer >= denom \/ numer <= -denom THEN NULL
           ELSE Some(Acos(Div6(numer, denom))) :
           numer \in {Sin(altitudeDeg) - Mul6(Sin(latitudeDeg), Sin(declinationDeg))},
           denom \in {Mul6(Cos(latitudeDeg), Cos(declinationDeg))} })

\* getHourAngle: the hour angle (1e-5 degree) at which the sun reaches
\* altitudeDeg, or NULL for the NaN the code returns when cosHA is outside
\* [-1, 1].  cosHA is numer / denom; with denom = 0 the quotient is an
\* infinity or NaN and Math.acos gives NaN as well.
getHourAngle(altitudeDeg, declinationDeg, latitudeDeg) ==
    Only({ IF denom = 0 THEN NULL
           ELSE IF numer > denom \/ numer < -denom THEN NULL
           ELSE Some(Acos(Div6(numer, denom))) :
           numer \in {Sin(altitudeDeg) - Mul6(Sin(latitudeDeg), Sin(declinationDeg))},
           denom \in {Mul6(Cos(latitudeDeg), Cos(declinationDeg))} })

\* The sign taken the other way round.
SignedHourAngle_Swapped(hourAngle, isSunset) == IF isSunset THEN -hourAngle ELSE hourAngle

\* const hDeg = isSunset ? hourAngle : -hourAngle
SignedHourAngle(hourAngle, isSunset) == IF isSunset THEN hourAngle ELSE -hourAngle

\* calculateTimeForAngle: the instant (ms) of a solar event on the local
\* day whose noon is localNoonUTC, or NULL.  longitude in 1e-5 degree,
\* tzOffset and offsetMinutes in 1e-5 minute, so offsetMinutes * 60000 ms
\* is offsetMinutes * 3 / 5.
calculateTimeForAngle(localNoonUTC, latitude, longitude, tzOffset, angleDeg, isSunset) ==
    Only({ Only({ IF hourAngle = NULL THEN NULL
                  ELSE LET hDeg == SignedHourAngle(hourAngle[1], isSunset)
                           longitudeCorrection == longitude * 4 - tzOffset
                           offsetMinutes == hDeg * 4 - longitudeCorrection - sc.equationOfTime
                       IN  Some(TimeClip(localNoonUTC, offsetMinutes * 3, 5)) :
                  hourAngle \in {getHourAngle(angleDeg, sc.declination, latitude)} }) :
           sc \in {getSolarCoordinates(dateToJulianDate(localNoonUTC))} })

\* Standard correction -0.833 degree (refraction + solar semidiameter).
SunriseAltitude == -83300

\* getFajr: twilightAngle in 1e-2 degree.
getFajr(localNoonUTC, lat, lon, tzOffset, twilightAngle) ==
    calculateTimeForAngle(localNoonUTC, lat, lon, tzOffset, -(twilightAngle * 1000), FALSE)

getSunrise(localNoonUTC, lat, lon, tzOffset) ==
    calculateTimeForAngle(localNoonUTC, lat, lon, tzOffset, SunriseAltitude, FALSE)

getSolarNoon_MeanNoon(localNoonUTC, lat, lon, tzOffset) ==
    TimeClip(localNoonUTC, -(lon * 4 - tzOffset) * 3, 5)

getSolarNoon(localNoonUTC, lat, lon, tzOffset) ==
    LET jd == dateToJulianDate(localNoonUTC)
        sc == getSolarCoordinates(jd)
        longitudeCorrection == lon * 4 - tzOffset
        offsetMinutes == -longitudeCorrection - sc.equationOfTime
    IN  TimeClip(localNoonUTC, offsetMinutes * 3, 5)

getMaghrib(localNoonUTC, lat, lon, tzOffset) ==
    calculateTimeForAngle(localNoonUTC, lat, lon, tzOffset, SunriseAltitude, TRUE)

(***************************************************************************)
(* validation                                                              *)
(***************************************************************************)

\* A config is a record of seven fields, each NULL (absent), Some(value) or,
\* for a number field, NaN: latitude, longitude (1e-5 degree),
\* timezoneOffsetMinutes, imsakMarginMinutes, maghribDelayMinutes
\* (1e-5 minute), fajrTwilightAngle (1e-2 degree), highLatitudeMode (a string).
validModes == {"none", "middle-of-night", "one-seventh", "angle-based"}

\* The number NaN in a number field (a present value that is no <<v>>).
NaN == << 0, 0 >>

\* field < bound and field > bound: every comparison with NaN is false.
Less(field, bound) == field # NaN /\ field[1] < bound

Greater(field, bound) == field # NaN /\ field[1] > bound

\* validateConfig: TRUE when it returns, FALSE when it throws RangeError.
\* The required fields are tested with Number.isNaN, the optional ones only
\* with the two comparisons.
validateConfig(config) ==
    /\ ~(config.latitude = NULL \/ config.latitude = NaN)
    /\ ~(Less(config.latitude, -9000000) \/ Greater(config.latitude, 9000000))
    /\ ~(config.longitude = NULL \/ config.longitude = NaN)
    /\ ~(Less(config.longitude, -18000000) \/ Greater(config.longitude, 18000000))
    /\ ~(config.timezoneOffsetMinutes = NULL \/ config.timezoneOffsetMinutes = NaN)
    /\ ~(Less(config.timezoneOffsetMinutes, -72000000) \/ Greater(config.timezoneOffsetMinutes, 84000000))
    /\ (config.imsakMarginMinutes # NULL =>
          ~(Less(config.imsakMarginMinutes, 0) \/ Greater(config.imsakMarginMinutes, 6000000)))
    /\ (config.maghribDelayMinutes # NULL =>
          ~(Less(config.maghribDelayMinutes, 0) \/ Greater(config.maghribDelayMinutes, 6000000)))
    /\ (config.fajrTwilightAngle # NULL =>
          ~(Less(config.fajrTwilightAngle, 1000) \/ Greater(config.fajrTwilightAngle, 2400)))
    /\ (config.highLatitudeMode # NULL => config.highLatitudeMode[1] \in validModes)

\* Destructuring defaults: `x = d` when the field is absent.
OrDefault(field, d) == IF field = NULL THEN d ELSE field[1]

(***************************************************************************)
(* helpers and the high-latitude fallback                                  *)
(***************************************************************************)

\* The whole number of minutes setUTCMinutes keeps of its argument (1e-5
\* minute): the fraction is dropped, toward zero.
setUTCMinutes(min) == Sgn(min) * (Abs(min) \div 100000)

\* The offset added to the noon instead of subtracted.
localNoonToUTC_Added(date, tzOffset) == date * MsPerDay + 43200000 + setUTCMinutes(tzOffset) * 60000

\* localNoonToUTC: 12:00 UTC of the calendar day with its minute set to
\* getUTCMinutes() - tzOffset, that is 0 - tzOffset.
\* The calendar day (year, month, day) is its day number, 1970-01-01 = 0.
localNoonToUTC(date, tzOffset) == date * MsPerDay + 43200000 + setUTCMinutes(0 - tzOffset) * 60000

\* A default other than 'none'.
FallbackMode_OtherDefault(config) == OrDefault(config.highLatitudeMode, "middle-of-night")

\* const mode = config.highLatitudeMode ?? 'none'
FallbackMode(config) == OrDefault(config.highLatitudeMode, "none")

\* const sr = sunrise ?? getSunrise(noonUTC, latitude, longitude, tz)
FallbackSunrise(date, config, sunrise) ==
    LET tz == config.timezoneOffsetMinutes[1]
    IN  IF sunrise # NULL THEN sunrise
        ELSE getSunrise(localNoonToUTC(date, tz), config.latitude[1], config.longitude[1], tz)

\* const ss = sunset ?? getMaghrib(noonUTC, latitude, longitude, tz)
FallbackSunset(date, config, sunset) ==
    LET tz == config.timezoneOffsetMinutes[1]
    IN  IF sunset # NULL THEN sunset
        ELSE getMaghrib(localNoonToUTC(date, tz), config.latitude[1], config.longitude[1], tz)

\* const nightDurationMs = sr.getTime() + 86400000 - ss.getTime()
nightDurationMs(sr, ss) == sr + 86400000 - ss

\* if (mode === 'middle-of-night'): fajr = new Date(ss.getTime() +
\* nightDurationMs / 2); return { fajr, maghrib: ss }
MiddleOfNight(sr, ss, night) ==
    [fajr |-> TimeClip(ss, night, 2), maghrib |-> ss]

\* The seventh taken back from sunset instead of sunrise.
OneSeventh_FromSunset(sr, ss, night) ==
    [fajr |-> TimeClip(ss, -night, 7), maghrib |-> ss]

\* if (mode === 'one-seventh'): fajr = new Date(sr.getTime() -
\* nightDurationMs / 7); return { fajr, maghrib: ss }
OneSeventh(sr, ss, night) ==
    [fajr |-> TimeClip(sr, -night, 7), maghrib |-> ss]

\* if (mode === 'angle-based'): proportion = fajrTwilightAngle / 60;
\* fajr = new Date(sr.getTime() - proportion * nightDurationMs);
\* return { fajr, maghrib: ss }
\* (the angle is in 1e-2 degree, so proportion is fajrTwilightAngle / 6000).
AngleBased(sr, ss, night, fajrTwilightAngle) ==
    [fajr |-> TimeClip(sr - (night \div 6000) * fajrTwilightAngle,
                       -((night % 6000) * fajrTwilightAngle), 6000),
     maghrib |-> ss]

\* applyHighLatitudeFallback: NULL, or Some([fajr, maghrib]).
applyHighLatitudeFallback(date, config, sunrise, sunset) ==
    Only({ LET mode == FallbackMode(config)
               fajrTwilightAngle == OrDefault(config.fajrTwilightAngle, 1800)
               night == nightDurationMs(sr[1], ss[1])
           IN  IF mode = "none" THEN NULL
               ELSE IF sr = NULL \/ ss = NULL THEN NULL
               ELSE IF mode = "middle-of-night"
                    THEN Some(MiddleOfNight(sr[1], ss[1], night))
               ELSE IF mode = "one-seventh" THEN Some(OneSeventh(sr[1], ss[1], night))
               ELSE IF mode = "angle-based"
                    THEN Some(AngleBased(sr[1], ss[1], night, fajrTwilightAngle))
               ELSE NULL :
           sr \in {FallbackSunrise(date, config, sunrise)},
           ss \in {FallbackSunset(date, config, sunset)} })

(***************************************************************************)
(* main API                                                                *)
(***************************************************************************)

\* The fallback consulted on every day.
FallbackNeeded_Always(fajrRaw, maghribRaw) == TRUE

\* if (!fajrRaw || !maghribRaw)
FallbackNeeded(fajrRaw, maghribRaw) == fajrRaw = NULL \/ maghribRaw = NULL

\* The flag never set.
HighLatFallback_NeverSet(needed, fallback) == FALSE

\* let highLatFallback = false; ... highLatFallback = true (after the
\* fallback returned a result)
HighLatFallback(needed, fallback) == needed /\ fallback # NULL

\* a ?? b
Coalesce(a, b) == IF a # NULL THEN a ELSE b

\* The estimate taken on every day.
SunriseOrEstimate_Always(sunriseRaw, fajrRaw) == TimeClip(fajrRaw, 90 * 60000, 1)

\* sunriseRaw ?? new Date(fajrRaw.getTime() + 90 * 60000)
SunriseOrEstimate(sunriseRaw, fajrRaw) ==
    IF sunriseRaw # NULL THEN sunriseRaw[1] ELSE fajrRaw + 90 * 60000

\* The margin added instead of subtracted.
ImsakTime_Added(fajrRaw, imsakMarginMinutes) == TimeClip(fajrRaw, imsakMarginMinutes * 3, 5)

\* new Date(fajrRaw.getTime() - imsakMarginMinutes * 60000)
\* (minutes in 1e-5: m * 60000 ms is m * 3 / 5).
ImsakTime(fajrRaw, imsakMarginMinutes) == TimeClip(fajrRaw, -(imsakMarginMinutes * 3), 5)

\* The delay subtracted instead of added.
\* The delay not applied.
MaghribTime_Undelayed(maghribRaw, maghribDelayMinutes) == maghribRaw

MaghribTime_Subtracted(maghribRaw, maghribDelayMinutes) ==
    TimeClip(maghribRaw, -(maghribDelayMinutes * 3), 5)

\* new Date(maghribRaw.getTime() + maghribDelayMinutes * 60000)
MaghribTime(maghribRaw, maghribDelayMinutes) == TimeClip(maghribRaw, maghribDelayMinutes * 3, 5)

\* The duration counted from imsak.
FastingDuration_FromImsak(fajr, imsak, maghrib) == (maghrib - imsak + 30000) \div 60000

\* Math.round((maghrib.getTime() - fajr.getTime()) / 60000): the nearest
\* whole minute, halves rounded up.
FastingDuration(fajr, imsak, maghrib) == (maghrib - fajr + 30000) \div 60000

NoTimes ==
    [fajr |-> 0, imsak |-> 0, sunrise |-> 0, solarNoon |-> 0, maghrib |-> 0,
     fastingDurationMinutes |-> 0, highLatitudeFallbackApplied |-> FALSE]

NoLocals ==
    [fajrRaw |-> NULL, maghribRaw |-> NULL, sunriseRaw |-> NULL,
     fajrUsed |-> NULL, maghribUsed |-> NULL, night |-> NULL]

\* The locals a call leaves behind: the three direct results as first
\* computed, fajrRaw / maghribRaw after the fallback was spliced in, and the
\* night duration the fallback computed (NULL when it returned none).
CallLocals(fajrRaw0, maghribRaw0, sunriseRaw, fallback, fajrRaw, maghribRaw) ==
    [fajrRaw |-> fajrRaw0, maghribRaw |-> maghribRaw0, sunriseRaw |-> sunriseRaw,
     fajrUsed |-> fajrRaw, maghribUsed |-> maghribRaw,
     night |-> IF fallback # NULL
               THEN Some(nightDurationMs(sunriseRaw[1], fallback[1].maghrib))
               ELSE NULL]

\* The direct computations of a call: fajrRaw, maghribRaw, sunriseRaw and
\* solarNoon (dhuhr) for the local noon of the calendar day.
DirectTimes(date, config) ==
    Only({ [fajrRaw |-> getFajr(noonUTC, config.latitude[1], config.longitude[1],
                                config.timezoneOffsetMinutes[1],
                                OrDefault(config.fajrTwilightAngle, 1800)),
            maghribRaw |-> getMaghrib(noonUTC, config.latitude[1], config.longitude[1],
                                      config.timezoneOffsetMinutes[1]),
            sunriseRaw |-> getSunrise(noonUTC, config.latitude[1], config.longitude[1],
                                      config.timezoneOffsetMinutes[1]),
            solarNoon |-> getSolarNoon(noonUTC, config.latitude[1], config.longitude[1],
                                       config.timezoneOffsetMinutes[1])] :
           noonUTC \in {localNoonToUTC(date, config.timezoneOffsetMinutes[1])} })

\* if (!fajrRaw || !maghribRaw) { const fallback = applyHighLatitudeFallback(
\* date, config, sunriseRaw, maghribRaw); ... }: the fallback's result, NULL
\* when the branch is not entered or the fallback returned null.
FallbackOf(date, config, d) ==
    IF FallbackNeeded(d.fajrRaw, d.maghribRaw)
    THEN applyHighLatitudeFallback(date, config, d.sunriseRaw, d.maghribRaw)
    ELSE NULL

\* fajrRaw = fajrRaw ?? fallback.fajr; maghribRaw = maghribRaw ?? fallback.maghrib
\* (inside the branch only).
Spliced(d, fallback) ==
    IF FallbackNeeded(d.fajrRaw, d.maghribRaw)
    THEN [fajrRaw |-> Coalesce(d.fajrRaw, Some(fallback[1].fajr)),
          maghribRaw |-> Coalesce(d.maghribRaw, Some(fallback[1].maghrib))]
    ELSE [fajrRaw |-> d.fajrRaw, maghribRaw |-> d.maghribRaw]

\* getDayFastingTimes(date, config).  The outcome is a record: ret is
\* "RangeError" (validateConfig threw), "null", "schedule", or "TypeError"
\* (getTime() of null); times is the returned FastingTimes; locals are the
\* call's local values.
getDayFastingTimes(date, config) ==
    IF ~validateConfig(config)
    THEN [ret |-> "RangeError", times |-> NoTimes, locals |-> NoLocals]
    ELSE
    Only({ Only({
        LET imsakMarginMinutes == OrDefault(config.imsakMarginMinutes, 0)
            maghribDelayMinutes == OrDefault(config.maghribDelayMinutes, 0)
            needed == FallbackNeeded(d.fajrRaw, d.maghribRaw)
            raw == Spliced(d, fallback)
            fajr == raw.fajrRaw[1]
            imsak == ImsakTime(raw.fajrRaw[1], imsakMarginMinutes)
            maghrib == MaghribTime(raw.maghribRaw[1], maghribDelayMinutes)
        IN  IF needed /\ fallback = NULL
            THEN [ret |-> "null", times |-> NoTimes,
                  locals |-> CallLocals(d.fajrRaw, d.maghribRaw, d.sunriseRaw,
                                        fallback, NULL, NULL)]
            ELSE IF raw.fajrRaw = NULL \/ raw.maghribRaw = NULL
            THEN [ret |-> "TypeError", times |-> NoTimes,
                  locals |-> CallLocals(d.fajrRaw, d.maghribRaw, d.sunriseRaw,
                                        fallback, raw.fajrRaw, raw.maghribRaw)]
            ELSE [ret |-> "schedule",
                  times |-> [fajr |-> fajr, imsak |-> imsak,
                             sunrise |-> SunriseOrEstimate(d.sunriseRaw, raw.fajrRaw[1]),
                             solarNoon |-> d.solarNoon, maghrib |-> maghrib,
                             fastingDurationMinutes |-> FastingDuration(fajr, imsak, maghrib),
                             highLatitudeFallbackApplied |->
                                 HighLatFallback(needed, fallback)],
                  locals |-> CallLocals(d.fajrRaw, d.maghribRaw, d.sunriseRaw,
                                        fallback, raw.fajrRaw, raw.maghribRaw)] :
        fallback \in {FallbackOf(date, config, d)} }) :
      d \in {DirectTimes(date, config)} })

\* getDayPrayerTimes(date, config): the same steps without the imsak margin
\* and the maghrib delay.  The returned PrayerTimes has fajr, sunrise, dhuhr,
\* maghrib and the flag; the times record keeps the field names of
\* FastingTimes (solarNoon holds dhuhr; imsak and the duration are not part
\* of the result and stay 0).
getDayPrayerTimes(date, config) ==
    IF ~validateConfig(config)
    THEN [ret |-> "RangeError", times |-> NoTimes, locals |-> NoLocals]
    ELSE
    Only({ Only({
        LET needed == FallbackNeeded(d.fajrRaw, d.maghribRaw)
            raw == Spliced(d, fallback)
        IN  IF needed /\ fallback = NULL
            THEN [ret |-> "null", times |-> NoTimes,
                  locals |-> CallLocals(d.fajrRaw, d.maghribRaw, d.sunriseRaw,
                                        fallback, NULL, NULL)]
            ELSE IF raw.fajrRaw = NULL \/ raw.maghribRaw = NULL
            THEN [ret |-> "TypeError", times |-> NoTimes,
                  locals |-> CallLocals(d.fajrRaw, d.maghribRaw, d.sunriseRaw,
                                        fallback, raw.fajrRaw, raw.maghribRaw)]
            ELSE [ret |-> "schedule",
                  times |-> [fajr |-> raw.fajrRaw[1], imsak |-> 0,
                             sunrise |-> SunriseOrEstimate(d.sunriseRaw, raw.fajrRaw[1]),
                             solarNoon |-> d.solarNoon, maghrib |-> raw.maghribRaw[1],
                             fastingDurationMinutes |-> 0,
                             highLatitudeFallbackApplied |->
                                 HighLatFallback(needed, fallback)],
                  locals |-> CallLocals(d.fajrRaw, d.maghribRaw, d.sunriseRaw,
                                        fallback, raw.fajrRaw, raw.maghribRaw)] :
        fallback \in {FallbackOf(date, config, d)} }) :
      d \in {DirectTimes(date, config)} })

(***************************************************************************)
(* formatLocalTime, Date arguments and getRamadanFastingTimes              *)
(***************************************************************************)

\* Number.prototype.toString of an integer, as a sequence of characters.
Digit(n) == << "0", "1", "2", "3", "4", "5", "6", "7", "8", "9" >>[n + 1]

RECURSIVE toString(_)
toString(n) ==
    IF n < 0 THEN << "-" >> \o toString(-n)
    ELSE IF n < 10 THEN << Digit(n) >>
    ELSE toString(n \div 10) \o << Digit(n % 10) >>

\* String.prototype.padStart(targetLength, "0")
RECURSIVE padStart(_, _)
padStart(str, targetLength) ==
    IF Len(str) >= targetLength THEN str ELSE padStart(<< "0" >> \o str, targetLength)

\* Date.prototype.getUTCHours and getUTCMinutes of a time value.
getUTCHours_Unwrapped(t) == t \div 3600000

getUTCHours(t) == (t \div 3600000) % 24

getUTCMinutes(t) == (t \div 60000) % 60

\* formatLocalTime(date, timezoneOffsetMinutes): the text, as a sequence of
\* characters, of a valid Date shifted by a whole number of minutes.
formatLocalTime(date, timezoneOffsetMinutes) ==
    Only({ padStart(toString(getUTCHours(local)), 2) \o << ":" >>
               \o padStart(toString(getUTCMinutes(local)), 2) :
           local \in {TimeClip(date, timezoneOffsetMinutes * 3, 5)} })

\* The day of the nearest midnight.
CalendarDay_Nearest(date) == (date + (MsPerDay \div 2)) \div MsPerDay

\* A Date argument is a local wall-clock time in ms since local midnight of
\* 1970-01-01; getFullYear, getMonth and getDate read its calendar day.
CalendarDay(date) == date \div MsPerDay

\* The Date taken as it is, time of day included.
LocalNoon_Raw(date) == date

\* new Date(year, month, day, 12): local noon of the calendar day of date,
\* without its time-of-day components.
LocalNoon(date) == CalendarDay(date) * MsPerDay + (MsPerDay \div 2)

RECURSIVE RangeLoop(_, _, _, _)
\* The loop pushing the cursor itself: every entry's date is the one Date
\* object current, which ends on the day after the range.
RangeLoop_AliasedCursor(current, endMs, config, results) ==
    IF current > endMs
    THEN [ret |-> "array",
          results |-> [i \in 1..Len(results) |-> [results[i] EXCEPT !.date = current]]]
    ELSE Only({
        IF r.ret \notin {"null", "schedule"}
        THEN [ret |-> r.ret, results |-> << >>]
        ELSE Only({ RangeLoop(current + MsPerDay, endMs, config, pushed) :
                 pushed \in {Append(results, [date |-> current, ret |-> r.ret,
                                               times |-> r.times])} }) :
        r \in {getDayFastingTimes(CalendarDay(current), config)} })

\* The loop ended by the first day without a schedule.
RangeLoop_StopsAtNull(current, endMs, config, results) ==
    IF current > endMs
    THEN [ret |-> "array", results |-> results]
    ELSE Only({
        IF r.ret # "schedule"
        THEN [ret |-> "array", results |-> results]
        ELSE Only({ RangeLoop(current + MsPerDay, endMs, config, pushed) :
                 pushed \in {Append(results, [date |-> current, ret |-> r.ret,
                                               times |-> r.times])} }) :
        r \in {getDayFastingTimes(CalendarDay(current), config)} })

\* The while loop of getRamadanFastingTimes: one getDayFastingTimes call per
\* local noon from current up to endMs, each result pushed (null or the
\* schedule, with the Date passed to the call, which a schedule carries as
\* its date); setDate(getDate() + 1) moves current to the next local noon.
\* A call that throws ends the loop with its exception.
RangeLoop(current, endMs, config, results) ==
    IF current > endMs
    THEN [ret |-> "array", results |-> results]
    ELSE Only({
        IF r.ret \notin {"null", "schedule"}
        THEN [ret |-> r.ret, results |-> << >>]
        ELSE Only({ RangeLoop(current + MsPerDay, endMs, config, pushed) :
                 pushed \in {Append(results, [date |-> current, ret |-> r.ret,
                                               times |-> r.times])} }) :
        r \in {getDayFastingTimes(CalendarDay(current), config)} })

\* The same function without the validateConfig call at its head.
getRamadanFastingTimes_Unvalidated(startDate, endDate, config) ==
    RangeLoop(LocalNoon(startDate), LocalNoon(endDate), config, << >>)

\* getRamadanFastingTimes(startDate, endDate, config)
getRamadanFastingTimes(startDate, endDate, config) ==
    IF ~validateConfig(config)
    THEN [ret |-> "RangeError", results |-> << >>]
    ELSE RangeLoop(LocalNoon(startDate), LocalNoon(endDate), config, << >>)

(***************************************************************************)
(* The state machine: calls of the API, one after another, on a day and a  *)
(* config drawn at Init                                                    *)
(***************************************************************************)

\* Calendar days are -MaxDay..MaxDay around 1970-01-01.
MaxDay == 1

Days == (-MaxDay)..MaxDay

\* latitude, longitude, timezoneOffsetMinutes: Mecca; London; London mirrored
\* to the south (no 18-degree dawn in the southern summer); a latitude where
\* on 1970-01-01 the sun only touches the sunrise altitude at transit; Tromso
\* (polar night); Tromso mirrored (midnight sun); the pole; Mecca with an
\* offset of 180.5 minutes.
Sites ==
    {<<2142250, 3982620, 18000000>>, <<5150850, -12570, 0>>,
     <<2142250, 3982620, 18050000>>,
     <<-5150850, -7400600, -30000000>>, <<6781770, -12570, 0>>,
     <<6964920, 3982620, 18000000>>, <<-6964920, -12570, 0>>,
     <<9000000, -7400600, -30000000>>}

\* imsakMarginMinutes and maghribDelayMinutes: both absent; 10 and 3
\* minutes; 0.00001 minute each.
Tunings ==
    {<<NULL, NULL>>, <<Some(1000000), Some(300000)>>, <<Some(1), Some(1)>>}

\* absent (18), 18.5 and 10 degrees
Angles == {NULL, Some(1850), Some(1000)}

Modes == {NULL} \cup {Some(m) : m \in validModes}

ValidConfigs ==
    {[latitude |-> Some(site[1]), longitude |-> Some(site[2]),
      timezoneOffsetMinutes |-> Some(site[3]), imsakMarginMinutes |-> tuning[1],
      maghribDelayMinutes |-> tuning[2], fajrTwilightAngle |-> an,
      highLatitudeMode |-> mo] :
        site \in Sites, tuning \in Tunings, an \in Angles, mo \in Modes}

London ==
    [latitude |-> Some(5150850), longitude |-> Some(-12570),
     timezoneOffsetMinutes |-> Some(0), imsakMarginMinutes |-> NULL,
     maghribDelayMinutes |-> NULL, fajrTwilightAngle |-> Some(1800),
     highLatitudeMode |-> NULL]

\* Configs validateConfig rejects: one field of London out of range.
InvalidConfigs ==
    {[London EXCEPT !.latitude = Some(10000000)],
     [London EXCEPT !.latitude = NULL],
     [London EXCEPT !.longitude = Some(-20000000)],
     [London EXCEPT !.timezoneOffsetMinutes = Some(84000001)],
     [London EXCEPT !.imsakMarginMinutes = Some(-1)],
     [London EXCEPT !.maghribDelayMinutes = Some(6000001)],
     [London EXCEPT !.fajrTwilightAngle = Some(500)],
     [London EXCEPT !.highLatitudeMode = Some("invalid")]}

Configs == ValidConfigs \cup InvalidConfigs

\* Times of day of a Date argument: midnight and the last millisecond.
TimesOfDay == {0, MsPerDay - 1}

\* A range ends the day before its start (empty), on it, or the day after.
Spans == {-1, 0, 1}

\* Times of day of the start and the end of a range.
RangeTimes == {<<0, 0>>, <<MsPerDay - 1, 0>>, <<0, MsPerDay - 1>>}

VARIABLES
    date,       \* the calendar day passed to the call (the start of a range)
    config,     \* the config passed to the call
    call,       \* "none" before the first call, then the function last called
    ret,        \* "none", "RangeError", "TypeError", "null", "schedule", "array"
    times,      \* the returned schedule when ret = "schedule"
    locals,     \* the call's local values (see CallLocals)
    startDate,  \* the start Date of the last range call
    endDate,    \* the end Date of the last range call
    results,    \* the returned array when ret = "array"
    previous,   \* the function called before the last call, or "none"
    formatted,  \* NULL, or the last formatLocalTime call: arguments and text
    astro       \* NULL, or the last call of an astronomy function: arguments and result

vars ==
    << date, config, call, ret, times, locals, startDate, endDate, results, previous,
       formatted, astro >>

Init ==
    /\ date \in Days
    /\ config \in Configs
    /\ call = "none"
    /\ ret = "none"
    /\ times = NoTimes
    /\ locals = NoLocals
    /\ startDate = NULL
    /\ endDate = NULL
    /\ results = << >>
    /\ previous = "none"
    /\ formatted = NULL
    /\ astro = NULL

\* One call of getDayFastingTimes on a Date of the day, at any time of day.
FastingCall ==
    /\ \E timeOfDay \in TimesOfDay :
         \E r \in {getDayFastingTimes(CalendarDay(date * MsPerDay + timeOfDay), config)} :
           /\ ret' = r.ret
           /\ times' = r.times
           /\ locals' = r.locals
    /\ call' = "getDayFastingTimes"
    /\ startDate' = NULL
    /\ endDate' = NULL
    /\ results' = << >>
    /\ previous' = call
    /\ UNCHANGED << date, config, formatted, astro >>

\* One call of getDayPrayerTimes on a Date of the day, at any time of day.
PrayerCall ==
    /\ \E timeOfDay \in TimesOfDay :
         \E r \in {getDayPrayerTimes(CalendarDay(date * MsPerDay + timeOfDay), config)} :
           /\ ret' = r.ret
           /\ times' = r.times
           /\ locals' = r.locals
    /\ call' = "getDayPrayerTimes"
    /\ startDate' = NULL
    /\ endDate' = NULL
    /\ results' = << >>
    /\ previous' = call
    /\ UNCHANGED << date, config, formatted, astro >>

\* The same call with current an alias of the caller's start Date, which the
\* loop then leaves on the day after the end.
RangeCall_MovesStart(spans, rangeTimes) ==
    /\ \E span \in spans, timesOfDay \in rangeTimes :
         \E s \in {date * MsPerDay + timesOfDay[1]},
            e \in {(date + span) * MsPerDay + timesOfDay[2]} :
           \E r \in {getRamadanFastingTimes(s, e, config)} :
             /\ ret' = r.ret
             /\ results' = r.results
             /\ startDate' = Some(s)
             /\ endDate' = Some(e)
             /\ date' = IF r.ret = "array" THEN date + Len(r.results) ELSE date
    /\ call' = "getRamadanFastingTimes"
    /\ times' = NoTimes
    /\ locals' = NoLocals
    /\ previous' = call
    /\ UNCHANGED << config, formatted, astro >>

\* One call of getRamadanFastingTimes on a range that starts on the day.
RangeCall(spans, rangeTimes) ==
    /\ \E span \in spans, timesOfDay \in rangeTimes :
         \E s \in {date * MsPerDay + timesOfDay[1]},
            e \in {(date + span) * MsPerDay + timesOfDay[2]} :
           \E r \in {getRamadanFastingTimes(s, e, config)} :
             /\ ret' = r.ret
             /\ results' = r.results
             /\ startDate' = Some(s)
             /\ endDate' = Some(e)
    /\ call' = "getRamadanFastingTimes"
    /\ times' = NoTimes
    /\ locals' = NoLocals
    /\ previous' = call
    /\ UNCHANGED << date, config, formatted, astro >>

\* Spec: a single call on the inputs.
GetDayFastingTimes == call = "none" /\ FastingCall

GetDayPrayerTimes == call = "none" /\ PrayerCall

GetRamadanFastingTimes == call = "none" /\ RangeCall(Spans, RangeTimes)

Next == GetDayFastingTimes \/ GetDayPrayerTimes \/ GetRamadanFastingTimes

Spec == Init /\ [][Next]_vars

\* SpecCalls: calls one after another, in any order, on the same day and
\* config.  The configs are every site with a 10 minute margin and a 3 minute
\* delay under three modes, and three of the rejected ones; a range is one
\* or two days, from the last millisecond of the day to a midnight.
RepeatConfigs ==
    {c \in ValidConfigs :
        /\ c.imsakMarginMinutes = Some(1000000)
        /\ c.fajrTwilightAngle = NULL
        /\ c.highLatitudeMode \in {NULL, Some("middle-of-night"), Some("angle-based")}}
    \cup {c \in InvalidConfigs : c.latitude # London.latitude \/ c.highLatitudeMode # NULL}

InitCalls == Init /\ config \in RepeatConfigs

NextCalls ==
    FastingCall \/ PrayerCall \/ RangeCall({0, 1}, {<<MsPerDay - 1, 0>>})

SpecCalls == InitCalls /\ [][NextCalls]_vars

(***************************************************************************)
(* Properties                                                              *)
(***************************************************************************)

Valid == validateConfig(config)

Fasting == call = "getDayFastingTimes"

Scheduled == ret = "schedule"

ModeNoneOrOmitted == config.highLatitudeMode \in {NULL, Some("none")}

Lat == config.latitude[1]

Lon == config.longitude[1]

Tz == config.timezoneOffsetMinutes[1]

TwilightAngle == OrDefault(config.fajrTwilightAngle, 1800)

Margin == OrDefault(config.imsakMarginMinutes, 0)

Delay == OrDefault(config.maghribDelayMinutes, 0)

\* The direct computations for the day of the call.
DirectFajr == getFajr(localNoonToUTC(date, Tz), Lat, Lon, Tz, TwilightAngle)

DirectSunrise == getSunrise(localNoonToUTC(date, Tz), Lat, Lon, Tz)

DirectMaghrib == getMaghrib(localNoonToUTC(date, Tz), Lat, Lon, Tz)

\* The sunrise of the following calendar day, from that day's own noon.
NextSunrise == getSunrise(localNoonToUTC(date + 1, Tz), Lat, Lon, Tz)

StrictlyOrdered(t) ==
    t.fajr < t.sunrise /\ t.sunrise < t.solarNoon /\ t.solarNoon < t.maghrib

C2_FallbackOrdering ==
    (Scheduled /\ times.highLatitudeFallbackApplied) => StrictlyOrdered(times)

\* C3: for a valid config getDayFastingTimes does not throw, and it returns
\* null exactly when the direct dawn or the direct sunset has no solution and
\* either the mode is 'none'/omitted or a sunrise and a sunset cannot both be
\* obtained; otherwise it returns a schedule.
C3_NullExactly ==
    (Valid /\ Fasting) =>
        /\ ret \in {"null", "schedule"}
        /\ ret = "null" <=>
              /\ DirectFajr = NULL \/ DirectMaghrib = NULL
              /\ \/ ModeNoneOrOmitted
                 \/ DirectSunrise = NULL
                 \/ DirectMaghrib = NULL

C3_Witness ==
    /\ Valid /\ Fasting /\ ret = "null"
    /\ ~ModeNoneOrOmitted
    /\ DirectSunrise = NULL

\* C4: in every returned schedule highLatitudeFallbackApplied is true iff
\* the direct dawn or the direct sunset had no solution, and then the
\* fallback's dawn is the returned fajr; when both were resolved directly the
\* flag is false and the returned fajr is the direct dawn.
C4_FlagIffFallback ==
    Scheduled =>
        /\ times.highLatitudeFallbackApplied <=>
               (DirectFajr = NULL \/ DirectMaghrib = NULL)
        /\ times.highLatitudeFallbackApplied =>
               /\ locals.fajrRaw = NULL
               /\ times.fajr = locals.fajrUsed[1]
        /\ ~times.highLatitudeFallbackApplied =>
               /\ times.fajr = DirectFajr[1]
               /\ locals.maghribUsed = DirectMaghrib

C4_Witness ==
    /\ Scheduled /\ Fasting
    /\ times.highLatitudeFallbackApplied
    /\ DirectFajr = NULL

FallbackSchedule == Scheduled /\ times.highLatitudeFallbackApplied

ModeIs(m) == config.highLatitudeMode = Some(m)

\* C5 as stated: under 'middle-of-night', when the fallback supplies dawn,
\* 2 x (fajr - sunset) equals (the following day's sunrise - sunset).
C5_BisectsNight ==
    (FallbackSchedule /\ ModeIs("middle-of-night") /\ NextSunrise # NULL) =>
        2 * (times.fajr - DirectMaghrib[1]) = NextSunrise[1] - DirectMaghrib[1]

\* d = (a / 6000) * n, given that d - a * (n \div 6000) is small
ProportionExact(d, a, n) ==
    LET e == d - a * (n \div 6000)
    IN  /\ e \in (-2400)..2400
        /\ 6000 * e = a * (n % 6000)

\* d is within one millisecond of (a / 6000) * n
ProportionWithinMs(d, a, n) ==
    LET e == d - a * (n \div 6000)
    IN  /\ e \in (-2400)..2400
        /\ 6000 * e - a * (n % 6000) \in (-5999)..5999

\* C6 as stated: when the fallback supplies dawn, 7 x (sunrise - fajr)
\* equals the night duration under 'one-seventh', and (sunrise - fajr) /
\* nightDuration equals fajrTwilightAngle / 60 under 'angle-based'.
C6_ExactFractions ==
    FallbackSchedule =>
        /\ ModeIs("one-seventh") =>
               7 * (times.sunrise - times.fajr) = locals.night[1]
        /\ ModeIs("angle-based") =>
               ProportionExact(times.sunrise - times.fajr, TwilightAngle, locals.night[1])

\* C6 amended: when the fallback supplies dawn, the returned fajr is sunrise
\* minus the fraction of the night duration, truncated to a whole
\* millisecond: 7 x (sunrise - fajr) differs from the night duration by less
\* than 7 ms under 'one-seventh', and sunrise - fajr is within 1 ms of
\* (fajrTwilightAngle / 60) x nightDuration under 'angle-based'.
C6_Fractions ==
    FallbackSchedule =>
        /\ ModeIs("one-seventh") =>
               7 * (times.sunrise - times.fajr) - locals.night[1] \in (-6)..6
        /\ ModeIs("angle-based") =>
               ProportionWithinMs(times.sunrise - times.fajr, TwilightAngle,
                                  locals.night[1])

C6_Witness ==
    /\ FallbackSchedule /\ Fasting
    /\ ModeIs("one-seventh")
    /\ locals.fajrRaw = NULL
    /\ 7 * (times.sunrise - times.fajr) # locals.night[1]

\* C7 as stated: the night duration the fallback uses for day D equals the
\* sunrise of day D+1 (from day D+1's own solar coordinates) minus the
\* sunset of day D.
C7_NightToNextSunrise ==
    (locals.night # NULL /\ NextSunrise # NULL) =>
        locals.night[1] = NextSunrise[1] - DirectMaghrib[1]

C9_ExactMargins ==
    (Scheduled /\ Fasting) =>
        /\ 5 * (times.fajr - times.imsak) = 3 * Margin
        /\ 5 * (times.maghrib - locals.maghribUsed[1]) = 3 * Delay

\* C9 amended: in every returned schedule fajr - imsak is imsakMarginMinutes
\* minutes and maghrib - (raw sunset used) is maghribDelayMinutes minutes,
\* each to the millisecond: exactly when the margin is a whole number of
\* milliseconds, otherwise off by less than 1 ms; with both omitted
\* imsak = fajr and maghrib = raw sunset.
C9_Margins ==
    (Scheduled /\ Fasting) =>
        /\ 5 * (times.fajr - times.imsak) - 3 * Margin \in (-4)..4
        /\ 5 * (times.maghrib - locals.maghribUsed[1]) - 3 * Delay \in (-4)..4
        /\ (3 * Margin) % 5 = 0 => 5 * (times.fajr - times.imsak) = 3 * Margin
        /\ (3 * Delay) % 5 = 0 =>
               5 * (times.maghrib - locals.maghribUsed[1]) = 3 * Delay
        /\ config.imsakMarginMinutes = NULL => times.imsak = times.fajr
        /\ config.maghribDelayMinutes = NULL =>
               times.maghrib = locals.maghribUsed[1]

C9_Witness ==
    /\ Scheduled /\ Fasting
    /\ config.imsakMarginMinutes = Some(1000000)
    /\ config.maghribDelayMinutes = Some(300000)
    /\ times.fajr - times.imsak = 600000
    /\ times.maghrib - locals.maghribUsed[1] = 180000

\* C10: fastingDurationMinutes is (maghrib - fajr) in minutes rounded to the
\* nearest whole minute (halves up), with the returned maghrib and fajr, and
\* it is the same as with imsakMarginMinutes omitted.
C10_Duration ==
    (Scheduled /\ Fasting) =>
        /\ (times.maghrib - times.fajr) - 60000 * times.fastingDurationMinutes
               \in (-30000)..29999
        /\ times.fastingDurationMinutes =
               getDayFastingTimes(date, [config EXCEPT !.imsakMarginMinutes = NULL])
                   .times.fastingDurationMinutes

C10_Witness ==
    /\ Scheduled /\ Fasting
    /\ config.imsakMarginMinutes = Some(1000000)
    /\ times.imsak < times.fajr
    /\ times.fastingDurationMinutes > 0
    /\ (times.maghrib - times.fajr) # 60000 * times.fastingDurationMinutes

\* C11: after a call of getDayFastingTimes, getDayPrayerTimes or
\* getRamadanFastingTimes on a config with a field out of range, the call has
\* raised RangeError, has returned no schedule and no array, and has computed
\* none of its astronomical values.
C11_ValidatesFirst ==
    (config \in InvalidConfigs /\ call # "none") =>
        /\ ret = "RangeError"
        /\ times = NoTimes
        /\ results = << >>
        /\ locals = NoLocals

\* An empty range on a rejected config has raised RangeError.
C11_Witness ==
    /\ config \in InvalidConfigs
    /\ call = "getRamadanFastingTimes"
    /\ CalendarDay(endDate[1]) < CalendarDay(startDate[1])
    /\ ret = "RangeError"

(***************************************************************************)
(* SpecValidate: one call of validateConfig on a config whose fields take  *)
(* absent, NaN, boundary and out-of-range values                           *)
(***************************************************************************)

ValidationConfigs ==
    {[latitude |-> lat, longitude |-> lon, timezoneOffsetMinutes |-> tz,
      imsakMarginMinutes |-> im, maghribDelayMinutes |-> md,
      fajrTwilightAngle |-> an, highLatitudeMode |-> mo] :
        lat \in {NULL, NaN, Some(-9000001), Some(-9000000), Some(9000000), Some(9000001)},
        lon \in {NaN, Some(-18000000), Some(18000000), Some(18000001)},
        tz \in {NULL, Some(-72000001), Some(-72000000), Some(84000000)},
        im \in {NULL, NaN, Some(0), Some(6000000), Some(6000001)},
        md \in {NULL, NaN, Some(-1), Some(6000000)},
        an \in {NULL, NaN, Some(999), Some(1000), Some(2400)},
        mo \in {NULL, Some("one-seventh"), Some("invalid")}}

InitValidate ==
    /\ date = 0
    /\ config \in ValidationConfigs
    /\ call = "none"
    /\ ret = "none"
    /\ times = NoTimes
    /\ locals = NoLocals
    /\ startDate = NULL
    /\ endDate = NULL
    /\ results = << >>
    /\ previous = "none"
    /\ formatted = NULL
    /\ astro = NULL

\* validateConfig(config) returns undefined or throws RangeError.
ValidateConfig ==
    /\ call = "none"
    /\ call' = "validateConfig"
    /\ ret' = IF validateConfig(config) THEN "undefined" ELSE "RangeError"
    /\ UNCHANGED << date, config, times, locals, startDate, endDate, results, previous,
                    formatted, astro >>

NextValidate == ValidateConfig

SpecValidate == InitValidate /\ [][NextValidate]_vars

\* A required field: a number within lo..hi.
Within(field, lo, hi) ==
    field # NULL /\ field # NaN /\ lo <= field[1] /\ field[1] <= hi

\* The documented ranges: latitude -90..90, longitude -180..180,
\* timezoneOffsetMinutes -720..840, each present margin 0..60, a present
\* twilight angle 10..24, a present mode one of the four.
Documented ==
    /\ Within(config.latitude, -9000000, 9000000)
    /\ Within(config.longitude, -18000000, 18000000)
    /\ Within(config.timezoneOffsetMinutes, -72000000, 84000000)
    /\ (config.imsakMarginMinutes = NULL \/ Within(config.imsakMarginMinutes, 0, 6000000))
    /\ (config.maghribDelayMinutes = NULL \/ Within(config.maghribDelayMinutes, 0, 6000000))
    /\ (config.fajrTwilightAngle = NULL \/ Within(config.fajrTwilightAngle, 1000, 2400))
    /\ (config.highLatitudeMode = NULL \/ config.highLatitudeMode[1] \in validModes)

\* C12: validateConfig returns exactly on the configs within the documented
\* ranges (bounds included) and raises RangeError on every other config.
C12_AcceptsExactlyDocumented ==
    call = "validateConfig" => (ret = "undefined" <=> Documented)

RangeReturned == call = "getRamadanFastingTimes" /\ ret = "array"

StartDay == CalendarDay(startDate[1])

EndDay == CalendarDay(endDate[1])

\* C13: when the start's calendar day is not after the end's, the array
\* getRamadanFastingTimes returns has (EndDay - StartDay) + 1 entries, whatever
\* the times of day of start and end, and entry i is for calendar day
\* StartDay + i - 1 (one per day, ascending).
C13_OnePerDay ==
    (RangeReturned /\ StartDay <= EndDay) =>
        /\ Len(results) = (EndDay - StartDay) + 1
        /\ \A i \in 1..Len(results) : CalendarDay(results[i].date) = StartDay + i - 1

\* A range from the last millisecond of a day to midnight of the next day
\* (less than a day apart) has returned two entries.
C13_Witness ==
    /\ RangeReturned
    /\ EndDay = StartDay + 1
    /\ endDate[1] - startDate[1] < MsPerDay
    /\ Len(results) = 2

\* C14: the array getRamadanFastingTimes returns has, for every calendar day
\* of the range, at position i what getDayFastingTimes returns for day
\* StartDay + i - 1 with the same config: null for a day with no solution,
\* else that day's schedule, whatever the other days gave.
C14_EntryIsDayResult ==
    RangeReturned =>
        \A i \in 1..((EndDay - StartDay) + 1) :
            /\ i <= Len(results)
            /\ \E r \in {getDayFastingTimes(StartDay + i - 1, config)} :
                   results[i].ret = r.ret /\ results[i].times = r.times

\* A returned range of two days whose first day has no solution and whose
\* second day has a schedule.
C14_Witness ==
    /\ RangeReturned
    /\ Len(results) = 2
    /\ results[1].ret = "null"
    /\ results[2].ret = "schedule"

ReturnsAsAlone ==
    /\ call = "getDayFastingTimes" =>
           \E r \in {getDayFastingTimes(date, config)} : ret = r.ret /\ times = r.times
    /\ call = "getDayPrayerTimes" =>
           \E r \in {getDayPrayerTimes(date, config)} : ret = r.ret /\ times = r.times
    /\ call = "getRamadanFastingTimes" =>
           \E r \in {getRamadanFastingTimes(startDate[1], endDate[1], config)} :
               ret = r.ret /\ results = r.results

PrayerTimesFields ==
    {"date", "fajr", "sunrise", "dhuhr", "maghrib", "highLatitudeFallbackApplied"}

\* C17: every schedule getDayPrayerTimes returns carries the instants fajr,
\* sunrise, dhuhr, asr, maghrib and isha.
C17_FivePrayersAndSunrise ==
    (call = "getDayPrayerTimes" /\ Scheduled) =>
        {"fajr", "sunrise", "dhuhr", "asr", "maghrib", "isha"} \subseteq PrayerTimesFields

(***************************************************************************)
(* SpecFormat: calls of formatLocalTime on instants around 1970-01-01 and  *)
(* whole-minute offsets                                                    *)
(***************************************************************************)

\* Time values in ms: 02:24:00.000 and 02:24:59.999, the ends of minutes,
\* hours and days, before and after the epoch.
Instants ==
    {-86400001, -86400000, -8640001, -60001, -60000, -1, 0, 59999, 60000, 3599999,
     8640000, 8699999, 35999999, 43200000, 86340000, 86399999, 86400000}

\* timezoneOffsetMinutes (1e-5 minute): -720, -300, -1, 0, 1, 180, 330, 840
Offsets ==
    {-72000000, -30000000, -100000, 0, 100000, 18000000, 33000000, 84000000}

InitFormat ==
    /\ date = 0
    /\ config = London
    /\ call = "none"
    /\ ret = "none"
    /\ times = NoTimes
    /\ locals = NoLocals
    /\ startDate = NULL
    /\ endDate = NULL
    /\ results = << >>
    /\ previous = "none"
    /\ formatted = NULL
    /\ astro = NULL

FormatLocalTime ==
    /\ \E instant \in Instants, offset \in Offsets :
         formatted' = [date |-> instant, timezoneOffsetMinutes |-> offset,
                       text |-> formatLocalTime(instant, offset)]
    /\ UNCHANGED << date, config, call, ret, times, locals, startDate, endDate,
                    results, previous, astro >>

NextFormat == FormatLocalTime

SpecFormat == InitFormat /\ [][NextFormat]_vars

\* The number a decimal digit character stands for, -1 for any other.
DigitValue(ch) == IF \E d \in 0..9 : Digit(d) = ch THEN CHOOSE d \in 0..9 : Digit(d) = ch ELSE -1

\* The minute of the day, 0..1439, of the instant shifted by the offset,
\* counted on the universal time axis (seconds and milliseconds dropped).
WallClockMinute == ((formatted.date + (formatted.timezoneOffsetMinutes \div 100000) * 60000) \div 60000) % 1440

\* C18: the text formatLocalTime returns is five characters 'HH:MM' of
\* decimal digits around a colon; HH is the wall-clock hour 00..23 and MM the
\* minute 00..59 of the instant plus the offset, wrapped into the day in both
\* directions and without seconds; 02:24 renders as 05:24 at +180 and as
\* 21:24 at -300.
C18_ZeroPaddedWallClock ==
    formatted # NULL =>
        /\ Len(formatted.text) = 5
        /\ formatted.text[3] = ":"
        /\ \A i \in {1, 2, 4, 5} : DigitValue(formatted.text[i]) \in 0..9
        /\ 10 * DigitValue(formatted.text[1]) + DigitValue(formatted.text[2])
               = WallClockMinute \div 60
        /\ 10 * DigitValue(formatted.text[4]) + DigitValue(formatted.text[5])
               = WallClockMinute % 60
        /\ (formatted.date = 8640000 /\ formatted.timezoneOffsetMinutes = 18000000) =>
               formatted.text = << "0", "5", ":", "2", "4" >>
        /\ (formatted.date = 8640000 /\ formatted.timezoneOffsetMinutes = -30000000) =>
               formatted.text = << "2", "1", ":", "2", "4" >>

\* 02:24:59.999 formatted at -300 minutes: 21:24 of the previous day.
C18_Witness ==
    /\ formatted # NULL
    /\ formatted.date = 8699999
    /\ formatted.timezoneOffsetMinutes = -30000000
    /\ formatted.text = << "2", "1", ":", "2", "4" >>

\* C19 as stated: after getDayPrayerTimes on a valid config, getDayFastingTimes
\* for the same day and config returns null in the same case, and otherwise
\* the prayer fajr, sunrise, dhuhr and flag are the fasting fajr, sunrise,
\* solarNoon and flag, and fasting maghrib - prayer maghrib is exactly
\* maghribDelayMinutes minutes.
C19_ExactAgreement ==
    (call = "getDayPrayerTimes" /\ Valid) =>
        \E f \in {getDayFastingTimes(date, config)} :
            /\ ret = f.ret
            /\ Scheduled =>
                /\ times.fajr = f.times.fajr
                /\ times.sunrise = f.times.sunrise
                /\ times.solarNoon = f.times.solarNoon
                /\ times.highLatitudeFallbackApplied = f.times.highLatitudeFallbackApplied
                /\ 5 * (f.times.maghrib - times.maghrib) = 3 * Delay

\* C19 amended: the same, with fasting maghrib - prayer maghrib equal to
\* maghribDelayMinutes minutes to within one millisecond, and exactly when the
\* delay is a whole number of milliseconds (0 when it is omitted).
C19_Agreement ==
    (call = "getDayPrayerTimes" /\ Valid) =>
        \E f \in {getDayFastingTimes(date, config)} :
            /\ ret = f.ret
            /\ Scheduled =>
                /\ times.fajr = f.times.fajr
                /\ times.sunrise = f.times.sunrise
                /\ times.solarNoon = f.times.solarNoon
                /\ times.highLatitudeFallbackApplied = f.times.highLatitudeFallbackApplied
                /\ 5 * (f.times.maghrib - times.maghrib) - 3 * Delay \in (-4)..4
                /\ (3 * Delay) % 5 = 0 => 5 * (f.times.maghrib - times.maghrib) = 3 * Delay

\* getDayPrayerTimes has returned a fallback schedule under a 3 minute delay.
C19_Witness ==
    /\ call = "getDayPrayerTimes"
    /\ Scheduled
    /\ times.highLatitudeFallbackApplied
    /\ config.maghribDelayMinutes = Some(300000)

\* C20: after getDayFastingTimes or getDayPrayerTimes on a valid config and a
\* day whose dawn and sunset both resolve directly, a schedule was returned
\* with the fallback flag false, and the same function returns the same
\* schedule under every other highLatitudeMode (omitted or any of the four).
C20_ModeIrrelevantWhenDirect ==
    (call \in {"getDayFastingTimes", "getDayPrayerTimes"} /\ Valid
         /\ DirectFajr # NULL /\ DirectMaghrib # NULL) =>
        /\ Scheduled
        /\ ~times.highLatitudeFallbackApplied
        /\ \A mode \in Modes :
             \E r \in {IF Fasting
                       THEN getDayFastingTimes(date, [config EXCEPT !.highLatitudeMode = mode])
                       ELSE getDayPrayerTimes(date, [config EXCEPT !.highLatitudeMode = mode])} :
                 r.ret = ret /\ r.times = times

\* A schedule under mode 'one-seventh' at a high latitude on a day whose dawn
\* and sunset both resolve directly.
C20_Witness ==
    /\ Fasting
    /\ Scheduled
    /\ ModeIs("one-seventh")
    /\ Lat = 6781770
    /\ DirectFajr # NULL
    /\ DirectMaghrib # NULL

\* C25: validateConfig raises RangeError on every config with NaN in a
\* numeric field: latitude, longitude, timezoneOffsetMinutes,
\* imsakMarginMinutes, maghribDelayMinutes or fajrTwilightAngle.
C25_RejectsNaN ==
    (call = "validateConfig"
        /\ NaN \in {config.latitude, config.longitude, config.timezoneOffsetMinutes,
                    config.imsakMarginMinutes, config.maghribDelayMinutes,
                    config.fajrTwilightAngle}) =>
        ret = "RangeError"

\* C30: a call of getRamadanFastingTimes whose start day is after its end day
\* has raised RangeError on a rejected config and has otherwise returned an
\* empty array; and in every returned array the date of each schedule is
\* the local noon of its own day, whatever the loop cursor did afterwards.
C30_EmptyRangeAndOwnDates ==
    call = "getRamadanFastingTimes" =>
        /\ StartDay > EndDay =>
               IF config \in InvalidConfigs
               THEN ret = "RangeError" /\ results = << >>
               ELSE ret = "array" /\ results = << >>
        /\ ret = "array" =>
               \A i \in 1..Len(results) :
                   results[i].ret = "schedule" =>
                       results[i].date = (StartDay + i - 1) * MsPerDay + (MsPerDay \div 2)

\* A valid config and a range that ends the day before it starts: an empty
\* array was returned.
C30_Witness ==
    /\ RangeReturned
    /\ Valid
    /\ StartDay > EndDay
    /\ results = << >>

\* C28: after getDayFastingTimes or getDayPrayerTimes on a valid config, the
\* direct sunrise of the day has no solution exactly when the direct sunset
\* has none; and a returned schedule has the direct sunrise as its sunrise
\* and is built on the direct sunset (the fallback replaced at most dawn).
C28_SunriseAndSunsetDirect ==
    (call \in {"getDayFastingTimes", "getDayPrayerTimes"} /\ Valid) =>
        /\ DirectSunrise = NULL <=> DirectMaghrib = NULL
        /\ Scheduled =>
            /\ DirectSunrise # NULL /\ times.sunrise = DirectSunrise[1]
            /\ DirectMaghrib # NULL /\ locals.maghribUsed = DirectMaghrib
            /\ ~Fasting => times.maghrib = DirectMaghrib[1]

\* A fallback schedule: dawn had no direct solution and was replaced.
C28_Witness ==
    /\ Scheduled
    /\ times.highLatitudeFallbackApplied
    /\ locals.fajrRaw = NULL
    /\ locals.fajrUsed # NULL
    /\ times.sunrise = DirectSunrise[1]

\* ------------------------------------------------------------------
\* C22: sunrise and sunset are placed symmetrically about solar noon
\* ------------------------------------------------------------------

\* The hour angle of the sunrise altitude at the day's local noon, the H
\* that calculateTimeForAngle negates for the morning event and keeps for
\* the evening one.
SunriseHourAngle ==
    Only({ getHourAngle(SunriseAltitude, sc.declination, Lat) :
           sc \in {getSolarCoordinates(dateToJulianDate(localNoonToUTC(date, Tz)))} })

\* C22 as stated: whenever a schedule is returned, sunrise is solar noon
\* minus 4H minutes and maghrib solar noon plus 4H minutes for the same
\* H >= 0, so that solar noon is exactly the midpoint of the two and
\* sunrise <= solar noon <= maghrib.
C22_ExactMidpoint ==
    (call \in {"getDayFastingTimes", "getDayPrayerTimes"} /\ Valid /\ Scheduled) =>
        /\ times.solarNoon - DirectSunrise[1] = DirectMaghrib[1] - times.solarNoon
        /\ DirectSunrise[1] <= times.solarNoon

\* C22 amended: the three instants are each cut to a whole millisecond,
\* so solar noon is the midpoint of sunrise and maghrib to within two
\* milliseconds, the span from sunrise to maghrib is 8H minutes to within
\* two milliseconds for the one H >= 0 of the sunrise altitude, and
\* sunrise <= solar noon <= maghrib.
C22_MidpointToMillisecond ==
    (call \in {"getDayFastingTimes", "getDayPrayerTimes"} /\ Valid /\ Scheduled) =>
        /\ SunriseHourAngle # NULL /\ SunriseHourAngle[1] >= 0
        /\ Abs((times.solarNoon - DirectSunrise[1]) - (DirectMaghrib[1] - times.solarNoon)) <= 2
        /\ Abs((DirectMaghrib[1] - DirectSunrise[1]) * 5 - 24 * SunriseHourAngle[1]) <= 10
        /\ DirectSunrise[1] <= times.solarNoon
        /\ times.solarNoon <= DirectMaghrib[1]

C22_Witness ==
    /\ Scheduled
    /\ DirectSunrise[1] < times.solarNoon
    /\ times.solarNoon < DirectMaghrib[1]
    /\ times.solarNoon - DirectSunrise[1] # DirectMaghrib[1] - times.solarNoon

\* ------------------------------------------------------------------
\* C29: the timezone offset cancels out of every returned instant
\* ------------------------------------------------------------------

\* 12:00 UTC of the calendar day of the call.
NoonUTC == date * MsPerDay + 43200000

\* The equation of time (1e-5 minute) sampled at the day's local noon.
NoonEquationOfTime ==
    Only({ sc.equationOfTime :
           sc \in {getSolarCoordinates(dateToJulianDate(localNoonToUTC(date, Tz)))} })

\* C29: whenever a schedule is returned, solar noon is 12:00 UTC of the
\* date plus (-4 * longitude - EoT) minutes and the direct sunrise and
\* maghrib are 12:00 UTC of the date plus (-4H - 4 * longitude - EoT) and
\* (+4H - 4 * longitude - EoT) minutes: timezoneOffsetMinutes does not
\* appear, it only moves the instant at which H and EoT are sampled.
C29_OffsetCancels ==
    (call \in {"getDayFastingTimes", "getDayPrayerTimes"} /\ Valid /\ Scheduled) =>
        /\ times.solarNoon = TimeClip(NoonUTC, (-(4 * Lon) - NoonEquationOfTime) * 3, 5)
        /\ DirectSunrise[1] =
               TimeClip(NoonUTC, (-(4 * SunriseHourAngle[1]) - 4 * Lon - NoonEquationOfTime) * 3, 5)
        /\ DirectMaghrib[1] =
               TimeClip(NoonUTC, (4 * SunriseHourAngle[1] - 4 * Lon - NoonEquationOfTime) * 3, 5)

\* The same, for offsets of a whole number of minutes.
C29_WholeOffsetCancels ==
    Tz % 100000 = 0 => C29_OffsetCancels

(***************************************************************************)
(* SpecNoon: the local noon of a calendar day, built by localNoonToUTC and *)
(* rendered by formatLocalTime with the same offset                        *)
(***************************************************************************)

\* Every timezoneOffsetMinutes of a whole number of minutes that
\* validateConfig accepts, -720..840 (1e-5 minute).
NoonOffsets == { tz * 100000 : tz \in (-720)..840 }

FormatLocalNoon ==
    /\ formatted = NULL
    /\ \E day \in Days, tz \in NoonOffsets :
         /\ date' = day
         /\ formatted' = [date |-> localNoonToUTC(day, tz), timezoneOffsetMinutes |-> tz,
                          text |-> formatLocalTime(localNoonToUTC(day, tz), tz)]
    /\ UNCHANGED << config, call, ret, times, locals, startDate, endDate, results, previous,
                    astro >>

NextNoon == FormatLocalNoon

SpecNoon == InitFormat /\ [][NextNoon]_vars

\* C23: localNoonToUTC is 12:00 UTC of the calendar day minus the offset
\* in minutes, and for every whole offset from -720 to 840 minutes
\* formatLocalTime renders it with the same offset as '12:00'.
C23_LocalNoonReadsTwelve ==
    formatted # NULL =>
        /\ formatted.date
               = date * MsPerDay + 43200000 - (formatted.timezoneOffsetMinutes \div 100000) * 60000
        /\ formatted.text = << "1", "2", ":", "0", "0" >>

\* The noon of the day before the epoch at +840 minutes: 22:00 UTC two
\* days before the epoch.
C23_Witness ==
    /\ formatted # NULL
    /\ date = -1
    /\ formatted.timezoneOffsetMinutes = 84000000
    /\ formatted.date = -93600000
    /\ formatted.text = << "1", "2", ":", "0", "0" >>

(***************************************************************************)
(* SpecAstro: one call of an astronomy function, getSolarCoordinates on a  *)
(* Julian date, getHourAngle on three angles, or getFajr, getSunrise or    *)
(* getMaghrib at the local noon of a site                                  *)
(***************************************************************************)

\* Julian dates as <<whole days, ms of the day>>: solstices, equinoxes and
\* the extremes of the equation of time (11 February, 3 November) of 1934,
\* 1949, 1970, 2000, 2024, 2100 and 2200; the solstices of 1800 and 1900
\* and the June solstice of 1933; the epoch; and 2004-03-21, at 00:00 and
\* at the instant 15:51:05.610 at which the mean longitude has run five
\* whole turns since J2000.
JulianDates ==
    LET pairs ==
    {<<2378668, 0>>, <<2378851, 0>>, <<2415192, 21600000>>,
     <<2415375, 64800000>>, <<2427245, 43200000>>, <<2427480, 0>>,
     <<2427517, 0>>, <<2427610, 21600000>>, <<2427703, 43200000>>,
     <<2427745, 0>>, <<2427793, 43200000>>, <<2432959, 0>>, <<2432996, 0>>,
     <<2433089, 21600000>>, <<2433182, 43200000>>, <<2433224, 0>>,
     <<2433272, 43200000>>, <<2440587, 43200000>>, <<2440629, 0>>,
     <<2440666, 0>>, <<2440759, 21600000>>, <<2440852, 43200000>>,
     <<2440894, 0>>, <<2440942, 43200000>>, <<2451586, 0>>, <<2451624, 0>>,
     <<2451717, 21600000>>, <<2451810, 43200000>>, <<2451852, 0>>,
     <<2451900, 43200000>>, <<2453086, 0>>, <<2453086, 57065610>>,
     <<2460352, 0>>, <<2460390, 0>>, <<2460483, 21600000>>,
     <<2460576, 43200000>>, <<2460618, 0>>, <<2460666, 43200000>>,
     <<2488111, 0>>, <<2488148, 0>>, <<2488241, 21600000>>,
     <<2488334, 43200000>>, <<2488376, 0>>, <<2488424, 43200000>>,
     <<2524635, 0>>, <<2524672, 0>>, <<2524765, 21600000>>,
     <<2524858, 43200000>>, <<2524900, 0>>, <<2524948, 43200000>>}
    IN  {[day |-> p[1], ms |-> p[2]] : p \in pairs}

\* altitudeDeg: dawn at 18 and 10 degrees, the sunrise altitude, the zenith
\* and the nadir (1e-5 degree).
Altitudes == {-1800000, -1000000, SunriseAltitude, 9000000, -9000000}

\* declinationDeg: the solstices, the equinox and two in between.
Declinations == {-2345000, -1200000, 0, 1200000, 2345000}

\* latitudeDeg: the equator, the latitudes of Sites and the arctic circle.
Latitudes ==
    {0, 2142250, 5150850, -5150850, 6655000, 6781770, 6964920, -6964920, 9000000}

EventFunctions == {"getFajr", "getSunrise", "getMaghrib"}

\* altitudeDeg of the event: -twilightAngle (18 degrees) or -0.833.
EventAltitude(fn) == IF fn = "getFajr" THEN -1800000 ELSE SunriseAltitude

EventTime(fn, localNoonUTC, lat, lon, tzOffset) ==
    IF fn = "getFajr" THEN getFajr(localNoonUTC, lat, lon, tzOffset, 1800)
    ELSE IF fn = "getSunrise" THEN getSunrise(localNoonUTC, lat, lon, tzOffset)
    ELSE getMaghrib(localNoonUTC, lat, lon, tzOffset)

InitAstro ==
    /\ date = 0
    /\ config = London
    /\ call = "none"
    /\ ret = "none"
    /\ times = NoTimes
    /\ locals = NoLocals
    /\ startDate = NULL
    /\ endDate = NULL
    /\ results = << >>
    /\ previous = "none"
    /\ formatted = NULL
    /\ astro = NULL

GetSolarCoordinates ==
    /\ astro = NULL
    /\ \E jd \in JulianDates :
         astro' = [fn |-> "getSolarCoordinates", jd |-> jd, coords |-> getSolarCoordinates(jd)]
    /\ UNCHANGED << date, config, call, ret, times, locals, startDate, endDate,
                    results, previous, formatted >>

GetHourAngle ==
    /\ astro = NULL
    /\ \E altitudeDeg \in Altitudes, declinationDeg \in Declinations, latitudeDeg \in Latitudes :
         astro' = [fn |-> "getHourAngle", altitudeDeg |-> altitudeDeg,
                   declinationDeg |-> declinationDeg, latitudeDeg |-> latitudeDeg,
                   hourAngle |-> getHourAngle(altitudeDeg, declinationDeg, latitudeDeg)]
    /\ UNCHANGED << date, config, call, ret, times, locals, startDate, endDate,
                    results, previous, formatted >>

\* getFajr, getSunrise or getMaghrib at the local noon of a day at a site;
\* hourAngle is what getHourAngle gives for the event's altitude there.
GetEventTime ==
    /\ astro = NULL
    /\ \E fn \in EventFunctions, site \in Sites, day \in Days :
         \E localNoonUTC \in {localNoonToUTC(day, site[3])} :
           \E sc \in {getSolarCoordinates(dateToJulianDate(localNoonUTC))} :
             astro' = [fn |-> fn, localNoonUTC |-> localNoonUTC, latitude |-> site[1],
                       longitude |-> site[2], tzOffset |-> site[3],
                       hourAngle |-> getHourAngle(EventAltitude(fn), sc.declination, site[1]),
                       time |-> EventTime(fn, localNoonUTC, site[1], site[2], site[3])]
    /\ UNCHANGED << date, config, call, ret, times, locals, startDate, endDate,
                    results, previous, formatted >>

NextAstro == GetSolarCoordinates \/ GetHourAngle \/ GetEventTime

SpecAstro == InitAstro /\ [][NextAstro]_vars

\* ------------------------------------------------------------------
\* C21: the hour angle and its NaN
\* ------------------------------------------------------------------

\* cosHA = CosNumerator / CosDenominator for the arguments of the call.
CosNumerator == Sin(astro.altitudeDeg) - Mul6(Sin(astro.latitudeDeg), Sin(astro.declinationDeg))

CosDenominator == Mul6(Cos(astro.latitudeDeg), Cos(astro.declinationDeg))

\* C21: getHourAngle gives no hour angle exactly when cosHA is outside
\* [-1, 1] (at the pole, where the denominator vanishes, cosHA is
\* unbounded); otherwise, the boundaries -1 and 1 included, it gives
\* acos(cosHA), an angle in [0, 180] whose cosine is cosHA again; and
\* getFajr, getSunrise and getMaghrib return null exactly when there is no
\* hour angle for their altitude.
C21_HourAngleOrNaN ==
    /\ (astro # NULL /\ astro.fn = "getHourAngle") =>
          /\ astro.hourAngle = NULL <=>
                 \/ CosDenominator = 0
                 \/ CosNumerator > CosDenominator
                 \/ CosNumerator < -CosDenominator
          /\ astro.hourAngle # NULL =>
                 /\ astro.hourAngle[1] \in 0..18000000
                 /\ astro.hourAngle[1] = Acos(Div6(CosNumerator, CosDenominator))
                 /\ Abs(Mul6(Cos(astro.hourAngle[1]), CosDenominator) - CosNumerator) <= 20
                 /\ CosNumerator = CosDenominator => astro.hourAngle[1] = 0
                 /\ CosNumerator = -CosDenominator => astro.hourAngle[1] = 18000000
    /\ (astro # NULL /\ astro.fn \in EventFunctions) =>
          (astro.time = NULL <=> astro.hourAngle = NULL)

\* At the equator on the equinox the sun reaches the nadir with cosHA = -1:
\* the hour angle is 180 degrees.
C21_Witness ==
    /\ astro # NULL
    /\ astro.fn = "getHourAngle"
    /\ astro.latitudeDeg = 0
    /\ astro.declinationDeg = 0
    /\ astro.altitudeDeg = -9000000
    /\ astro.hourAngle = Some(18000000)

\* ------------------------------------------------------------------
\* C26: the mean longitude after the two loops
\* ------------------------------------------------------------------

\* C26: for every Julian date the two loops of getSolarCoordinates end
\* and leave the mean longitude L0 in [0, 360), 360 excluded.
C26_L0InHalfOpenRange ==
    (astro # NULL /\ astro.fn = "getSolarCoordinates") =>
        astro.coords.l0 \in 0..35999999

\* L0 is left in [0, 360], 360 included.
C26_L0InClosedRange ==
    (astro # NULL /\ astro.fn = "getSolarCoordinates") =>
        astro.coords.l0 \in 0..36000000

\* ------------------------------------------------------------------
\* C27: the ranges of the declination and of the equation of time
\* ------------------------------------------------------------------

=============================================================================
